---- MODULE Spec2Model ----
(***************************************************************************)
(* Guardrail pipeline of the AI job description generator:                 *)
(*   guardrails.py  RateLimiter, ContentFilter, InputValidator,            *)
(*                  OutputValidator, GuardrailsManager                     *)
(*   config.py      GuardrailsConfig (environment driven settings)         *)
(*   main.py        the /generate-jd handler generate_jd                   *)
(*   jd_generator.py generate_job_description (the generation backend)     *)
(*                                                                         *)
(* Texts are TLA+ strings; a character is a string of length 1.  Python's  *)
(* Optional[x] is a sequence of length 0 (None) or 1 (a value).            *)
(***************************************************************************)
EXTENDS Integers, Sequences, FiniteSets, TLC

VARIABLES
    now,             \* the wall clock read by time.time()
    max_requests,    \* RateLimiter.max_requests
    window_seconds,  \* RateLimiter.window_seconds
    requests,        \* RateLimiter.requests: client id -> list of timestamps
    env,             \* GuardrailsConfig: the settings read from the environment
    last,            \* the last call made on the GuardrailsManager and its result
    recent,          \* observer: per client, the admitted calls of the trailing window
    burst,           \* observer: per client, the calls issued since its window was empty
    arg,             \* the argument of a call of one of the pure functions
    ret,             \* the last pure function applied to arg, and what it returned
    frame,           \* per request being served by generate_jd: where it is, its locals
    response         \* the last response of generate_jd

vars == <<now, max_requests, window_seconds, requests, env, last, recent, burst, arg, ret,
          frame, response>>

---------------------------------------------------------------------------
(* Python values *)

None == <<>>
Some(x) == <<x>>

Ch(s, i) == SubSeq(s, i, i)

Digits == "0123456789"

\* str(n) of a non negative int, as the f-strings of guardrails.py format it
RECURSIVE ToStr(_)
ToStr(n) == IF n < 10 THEN Ch(Digits, n + 1)
            ELSE ToStr(n \div 10) \o Ch(Digits, (n % 10) + 1)

\* c * n
RECURSIVE Rep(_, _)
Rep(c, n) == IF n <= 0 THEN ""
             ELSE IF n = 1 THEN c
             ELSE Rep(c, n \div 2) \o Rep(c, n - (n \div 2))

UpperAlpha == "ABCDEFGHIJKLMNOPQRSTUVWXYZ"
LowerAlpha == "abcdefghijklmnopqrstuvwxyz"

UpperSet == {Ch(UpperAlpha, i) : i \in 1..Len(UpperAlpha)}
LowerSet == {Ch(LowerAlpha, i) : i \in 1..Len(LowerAlpha)}
DigitSet == {Ch(Digits, i) : i \in 1..Len(Digits)}

\* str.isspace() / the regex class \s
IsSpace(c) == c \in {" ", "\t", "\n", "\r"}

\* the regex class [a-zA-Z0-9]
IsAlnum(c) == c \in UpperSet \cup LowerSet \cup DigitSet

\* the regex class \w
IsWord(c) == IsAlnum(c) \/ c = "_"

\* str.lower() of one character (also how re.IGNORECASE compares)
LowerCh(c) == IF c \in UpperSet
              THEN Ch(LowerAlpha, CHOOSE i \in 1..Len(UpperAlpha) : Ch(UpperAlpha, i) = c)
              ELSE c

\* the concatenation of f(s, i) for i in lo..hi, by halving
RECURSIVE Pieces(_, _, _, _)
Pieces(f(_, _), s, lo, hi) ==
    IF lo > hi THEN ""
    ELSE IF lo = hi THEN f(s, lo)
    ELSE LET mid == (lo + hi) \div 2
         IN  Pieces(f, s, lo, mid) \o Pieces(f, s, mid + 1, hi)

LowerAt(s, i) == LowerCh(Ch(s, i))

\* str.lower()
Lower(s) == Pieces(LowerAt, s, 1, Len(s))

\* whether w occurs in s at position i
OccursAt(s, w, i) ==
    /\ i >= 1
    /\ i + Len(w) - 1 <= Len(s)
    /\ \A j \in 1..Len(w) : Ch(s, i + j - 1) = Ch(w, j)

\* w in s
Contains(s, w) == \E i \in 1..(Len(s) - Len(w) + 1) : OccursAt(s, w, i)

\* str.strip(): without the leading and the trailing whitespace
Strip(s) ==
    IF \A i \in 1..Len(s) : IsSpace(Ch(s, i)) THEN ""
    ELSE LET first == CHOOSE i \in 1..Len(s) :
                          ~IsSpace(Ch(s, i)) /\ \A k \in 1..(i - 1) : IsSpace(Ch(s, k))
             final == CHOOSE i \in 1..Len(s) :
                          ~IsSpace(Ch(s, i)) /\ \A k \in (i + 1)..Len(s) : IsSpace(Ch(s, k))
         IN  SubSeq(s, first, final)

---------------------------------------------------------------------------
(* guardrails.py: ContentFilter *)

\* the words of BLACKLIST_PATTERNS[0], \b(hack|exploit|inject|sql|script|xss|malware)\b
BlacklistWords == {"hack", "exploit", "inject", "sql", "script", "xss", "malware"}

\* the verbs and the objects of BLACKLIST_PATTERNS[3]
SqlVerbs == {"drop", "delete", "insert"}
SqlObjects == {"table", "from", "into"}

\* the words of INAPPROPRIATE_PATTERNS, each between two \b
InappropriateWords == {"porn", "xxx", "sex", "nude", "nsfw",
                       "violence", "kill", "murder", "terrorist"}

\* re.IGNORECASE: the lower case word w matches s at position i
MatchAt(s, w, i) ==
    /\ i >= 1
    /\ i + Len(w) - 1 <= Len(s)
    /\ \A j \in 1..Len(w) : LowerCh(Ch(s, i + j - 1)) = Ch(w, j)

\* \b between positions i - 1 and i of s (i in 1..Len(s) + 1)
Boundary(s, i) ==
    LET before == i > 1 /\ IsWord(Ch(s, i - 1))
        after  == i <= Len(s) /\ IsWord(Ch(s, i))
    IN  before # after

\* \bw\b at position i
WordAt(s, w, i) ==
    /\ MatchAt(s, w, i)
    /\ Boundary(s, i)
    /\ Boundary(s, i + Len(w))

\* . (any character but a newline) at every position of lo..hi
NoNewline(s, lo, hi) == \A k \in lo..hi : Ch(s, k) # "\n"

\* <script.*?>.*?</script>
ScriptTagAt(s, i) ==
    /\ MatchAt(s, "<script", i)
    /\ \E j \in (i + 7)..Len(s) :
          /\ Ch(s, j) = ">"
          /\ NoNewline(s, i + 7, j - 1)
          /\ \E k \in (j + 1)..Len(s) :
                /\ MatchAt(s, "</script>", k)
                /\ NoNewline(s, j + 1, k - 1)

\* (\bDROP\b|\bDELETE\b|\bINSERT\b)\s+(TABLE|FROM|INTO)
SqlStatementAt(s, i) ==
    \E v \in SqlVerbs :
        /\ WordAt(s, v, i)
        /\ \E k \in (i + Len(v) + 1)..Len(s) :
              /\ \A m \in (i + Len(v))..(k - 1) : IsSpace(Ch(s, m))
              /\ \E o \in SqlObjects : MatchAt(s, o, k)

\* blacklist_regex.search(text)
BlacklistSearch(s) ==
    \E i \in 1..Len(s) :
        \/ \E w \in BlacklistWords : WordAt(s, w, i)
        \/ ScriptTagAt(s, i)
        \/ MatchAt(s, "javascript:", i)
        \/ MatchAt(s, "data:text/html", i)
        \/ SqlStatementAt(s, i)

\* inappropriate_regex.search(text)
InappropriateSearch(s) ==
    \E i \in 1..Len(s) : \E w \in InappropriateWords : WordAt(s, w, i)

MsgMalicious == "Input contains potentially malicious content"
MsgInappropriate == "Input contains inappropriate content"

\* a faulty is_safe: the inappropriate category tested first
is_safe_inappropriate_first(text) ==
    IF InappropriateSearch(text) THEN <<FALSE, Some(MsgInappropriate)>>
    ELSE IF BlacklistSearch(text) THEN <<FALSE, Some(MsgMalicious)>>
    ELSE <<TRUE, None>>

\* ContentFilter.is_safe(text) -> (safe, reason)
is_safe(text) ==
    IF BlacklistSearch(text) THEN <<FALSE, Some(MsgMalicious)>>
    ELSE IF InappropriateSearch(text) THEN <<FALSE, Some(MsgInappropriate)>>
    ELSE <<TRUE, None>>

\* <[^>]+> matches s at position i
TagAt(s, i) ==
    /\ Ch(s, i) = "<"
    /\ i + 1 <= Len(s)
    /\ Ch(s, i + 1) # ">"
    /\ \E j \in (i + 2)..Len(s) : Ch(s, j) = ">"

\* the position of the > that ends the tag that starts at i
TagEnd(s, i) ==
    CHOOSE j \in (i + 2)..Len(s) :
        Ch(s, j) = ">" /\ \A m \in (i + 2)..(j - 1) : Ch(s, m) # ">"

\* re.sub(r'<[^>]+>', '', text): the leftmost matches from position `from` on, removed
RECURSIVE RemoveTags(_, _)
RemoveTags(s, from) ==
    IF \A i \in from..Len(s) : ~TagAt(s, i) THEN SubSeq(s, from, Len(s))
    ELSE LET i == CHOOSE i \in from..Len(s) :
                      TagAt(s, i) /\ \A k \in from..(i - 1) : ~TagAt(s, k)
         IN  SubSeq(s, from, i - 1) \o RemoveTags(s, TagEnd(s, i) + 1)

\* re.sub(r'\s+', ' ', text) at position i: a run of whitespace leaves one space
CollapseAt(s, i) ==
    IF ~IsSpace(Ch(s, i)) THEN Ch(s, i)
    ELSE IF i > 1 /\ IsSpace(Ch(s, i - 1)) THEN ""
    ELSE " "

CollapseSpaces(s) == Pieces(CollapseAt, s, 1, Len(s))

\* re.sub(r'[<>{}]', '', text) at position i
SpecialAt(s, i) == IF Ch(s, i) \in {"<", ">", "{", "}"} THEN "" ELSE Ch(s, i)

RemoveSpecial(s) == Pieces(SpecialAt, s, 1, Len(s))

\* ContentFilter.sanitize(text)
sanitize(text) ==
    Strip(RemoveSpecial(CollapseSpaces(RemoveTags(text, 1))))

---------------------------------------------------------------------------
(* guardrails.py: InputValidator *)

MIN_LENGTH == 10
MAX_LENGTH == 2000

MsgEmpty == "Role details cannot be empty"
MsgTooShort == "Role details too short. Minimum " \o ToStr(MIN_LENGTH) \o " characters required"
MsgTooLong == "Role details too long. Maximum " \o ToStr(MAX_LENGTH) \o " characters allowed"
MsgNoText == "Role details must contain valid text"

\* re.search(r'[a-zA-Z0-9]', role_details)
HasAlnum(s) == \E i \in 1..Len(s) : IsAlnum(Ch(s, i))

\* a faulty validate_role_details: the length tested before the emptiness
validate_role_details_length_first(role_details) ==
    IF Len(role_details) < MIN_LENGTH THEN <<FALSE, Some(MsgTooShort)>>
    ELSE IF Len(role_details) > MAX_LENGTH THEN <<FALSE, Some(MsgTooLong)>>
    ELSE IF role_details = "" \/ Strip(role_details) = "" THEN <<FALSE, Some(MsgEmpty)>>
    ELSE IF ~HasAlnum(role_details) THEN <<FALSE, Some(MsgNoText)>>
    ELSE <<TRUE, None>>

\* InputValidator.validate_role_details(role_details) -> (valid, reason)
validate_role_details(role_details) ==
    IF role_details = "" \/ Strip(role_details) = "" THEN <<FALSE, Some(MsgEmpty)>>
    ELSE IF Len(role_details) < MIN_LENGTH THEN <<FALSE, Some(MsgTooShort)>>
    ELSE IF Len(role_details) > MAX_LENGTH THEN <<FALSE, Some(MsgTooLong)>>
    ELSE IF ~HasAlnum(role_details) THEN <<FALSE, Some(MsgNoText)>>
    ELSE <<TRUE, None>>

---------------------------------------------------------------------------
(* guardrails.py: OutputValidator *)

REQUIRED_SECTIONS == <<"Job Title", "Job Summary", "Responsibilities", "Skills">>

MIN_OUTPUT_LENGTH == 100
MAX_OUTPUT_LENGTH == 5000

MsgOutShort == "Generated output is too short"
MsgOutFormat == "Generated output doesn't match expected format"

\* the sections of REQUIRED_SECTIONS with section.lower() in output.lower()
SectionsIn(output) ==
    LET low == Lower(output)
    IN  {k \in 1..Len(REQUIRED_SECTIONS) : Contains(low, Lower(REQUIRED_SECTIONS[k]))}

\* output[:MAX_OUTPUT_LENGTH]
Truncate(output) == SubSeq(output, 1, MAX_OUTPUT_LENGTH)

\* a faulty validate_output: the sections counted on the text as generated
validate_output_untruncated(output) ==
    IF Len(output) < MIN_OUTPUT_LENGTH THEN <<FALSE, Some(MsgOutShort)>>
    ELSE IF Cardinality(SectionsIn(output)) < 2 THEN <<FALSE, Some(MsgOutFormat)>>
    ELSE <<TRUE, None>>

\* OutputValidator.validate_output(output) -> (valid, reason)
validate_output(output) ==
    IF Len(output) < MIN_OUTPUT_LENGTH THEN <<FALSE, Some(MsgOutShort)>>
    ELSE LET text == IF Len(output) > MAX_OUTPUT_LENGTH THEN Truncate(output) ELSE output
         IN  IF Cardinality(SectionsIn(text)) < 2 THEN <<FALSE, Some(MsgOutFormat)>>
             ELSE <<TRUE, None>>

\* the character class [-â€¢*] of check_output_quality, as the source file spells it
BulletChars == {"-", "â", "€", "¢", "*"}

\* len(output.split()): the number of runs of characters that are not whitespace
WordCount(output) ==
    Cardinality({i \in 1..Len(output) :
                    /\ ~IsSpace(Ch(output, i))
                    /\ (i = 1 \/ IsSpace(Ch(output, i - 1)))})

\* min(a, b)
Min(a, b) == IF a <= b THEN a ELSE b

\* OutputValidator.check_output_quality(output); quality_score is the fraction num / den
check_output_quality(output) ==
    [length            |-> Len(output),
     word_count        |-> WordCount(output),
     sections_found    |-> SectionsIn(output),
     has_bullet_points |-> \E i \in 1..(Len(output) - 1) :
                              Ch(output, i) \in BulletChars /\ IsSpace(Ch(output, i + 1)),
     quality_score     |-> [num |-> Min(100 * 5, WordCount(output)), den |-> 5]]

---------------------------------------------------------------------------
(* guardrails.py: RateLimiter *)

\* a faulty RateLimiter: one list read for every client
TimestampsOfAnyClient(client_id) ==
    IF DOMAIN requests = {} THEN <<>>
    ELSE requests[CHOOSE c \in DOMAIN requests : TRUE]

\* self.requests[client_id] of the defaultdict(list)
Timestamps(client_id) ==
    IF client_id \in DOMAIN requests THEN requests[client_id] ELSE <<>>

\* a faulty window test: a timestamp exactly window_seconds old is kept
InWindowInclusive(req_time) == now - req_time <= window_seconds

\* now - req_time < self.window_seconds
InWindow(req_time) == now - req_time < window_seconds

\* the list without the requests outside the window
Unexpired(client_id) == SelectSeq(Timestamps(client_id), InWindow)

\* a faulty limit test: one request more than max_requests is let through
LimitExceededStrict(count) == count > max_requests

\* len(self.requests[client_id]) >= self.max_requests
LimitExceeded(count) == count >= max_requests

MsgRateLimit ==
    "Rate limit exceeded. Max " \o ToStr(max_requests) \o " requests per "
        \o ToStr(window_seconds) \o " seconds."

\* what RateLimiter.is_allowed(client_id) returns: (allowed, reason)
is_allowed(client_id) ==
    IF LimitExceeded(Len(Unexpired(client_id))) THEN <<FALSE, Some(MsgRateLimit)>>
    ELSE <<TRUE, None>>

\* a faulty is_allowed: the refused attempt is recorded too
is_allowed_requests_records_refused(client_id) ==
    [c \in DOMAIN requests \cup {client_id} |->
        IF c = client_id THEN Append(Unexpired(client_id), now) ELSE requests[c]]

\* what RateLimiter.is_allowed(client_id) leaves in self.requests
is_allowed_requests(client_id) ==
    LET kept == Unexpired(client_id)
        list == IF LimitExceeded(Len(kept)) THEN kept ELSE Append(kept, now)
    IN  [c \in DOMAIN requests \cup {client_id} |->
            IF c = client_id THEN list ELSE requests[c]]

---------------------------------------------------------------------------
(* guardrails.py: GuardrailsManager *)

\* a faulty validate_request: the content filter asked before the input validator
validate_request_filter_first(rate, role_details) ==
    IF ~rate[1] THEN
        [result |-> <<FALSE, None, rate[2]>>, stages |-> <<"rate">>]
    ELSE IF ~is_safe(role_details)[1] THEN
        [result |-> <<FALSE, None, is_safe(role_details)[2]>>,
         stages |-> <<"rate", "safe">>]
    ELSE IF ~validate_role_details(role_details)[1] THEN
        [result |-> <<FALSE, None, validate_role_details(role_details)[2]>>,
         stages |-> <<"rate", "safe", "validate">>]
    ELSE
        [result |-> <<TRUE, Some(sanitize(role_details)), None>>,
         stages |-> <<"rate", "safe", "validate", "sanitize">>]

\* a faulty validate_request: the text is returned with the refusal of the filter
validate_request_keeps_text(rate, role_details) ==
    IF ~rate[1] THEN
        [result |-> <<FALSE, None, rate[2]>>, stages |-> <<"rate">>]
    ELSE IF ~validate_role_details(role_details)[1] THEN
        [result |-> <<FALSE, None, validate_role_details(role_details)[2]>>,
         stages |-> <<"rate", "validate">>]
    ELSE IF ~is_safe(role_details)[1] THEN
        [result |-> <<FALSE, Some(sanitize(role_details)), is_safe(role_details)[2]>>,
         stages |-> <<"rate", "validate", "safe">>]
    ELSE
        [result |-> <<TRUE, Some(sanitize(role_details)), None>>,
         stages |-> <<"rate", "validate", "safe", "sanitize">>]

\* GuardrailsManager.validate_request once is_allowed returned `rate`:
\* result is (is_valid, sanitized_input, error_message), stages the calls made
validate_request(rate, role_details) ==
    IF ~rate[1] THEN
        [result |-> <<FALSE, None, rate[2]>>, stages |-> <<"rate">>]
    ELSE IF ~validate_role_details(role_details)[1] THEN
        [result |-> <<FALSE, None, validate_role_details(role_details)[2]>>,
         stages |-> <<"rate", "validate">>]
    ELSE IF ~is_safe(role_details)[1] THEN
        [result |-> <<FALSE, None, is_safe(role_details)[2]>>,
         stages |-> <<"rate", "validate", "safe">>]
    ELSE
        [result |-> <<TRUE, Some(sanitize(role_details)), None>>,
         stages |-> <<"rate", "validate", "safe", "sanitize">>]

\* a faulty GuardrailsManager.validate_output: the metrics taken of the text that
\* the validator read, cut at MAX_OUTPUT_LENGTH
manager_validate_output_of_truncated(output) ==
    IF ~validate_output(output)[1] THEN <<FALSE, validate_output(output)[2], None>>
    ELSE <<TRUE, None,
           Some(check_output_quality(IF Len(output) > MAX_OUTPUT_LENGTH
                                     THEN Truncate(output) ELSE output))>>

\* GuardrailsManager.validate_output(output) -> (is_valid, error_message, quality_metrics)
manager_validate_output(output) ==
    IF ~validate_output(output)[1] THEN <<FALSE, validate_output(output)[2], None>>
    ELSE <<TRUE, None, Some(check_output_quality(output))>>

---------------------------------------------------------------------------
(* The texts the functions are applied to *)

MaxChunks == 3
MaxLabels == 2

\* the pieces request texts are put together from
Chunks == {"a", " ", "<", ">", "{", "SqL", "kill", "Engineer"}

\* the concatenations of at most n pieces
RECURSIVE Joined(_, _)
Joined(pieces, n) ==
    IF n = 0 THEN {""}
    ELSE LET shorter == Joined(pieces, n - 1)
         IN  shorter \cup {t \o c : t \in shorter, c \in pieces}

\* texts at the bounds of the lengths, texts with nothing to read in them, and
\* texts for the patterns of more than one word
EdgeTexts ==
    {Rep(c, n) : c \in {"a", " ", "!"},
                 n \in {MIN_LENGTH - 1, MIN_LENGTH, MAX_LENGTH, MAX_LENGTH + 1}}
    \cup {"javascript:alert", "<script>a</script>", "Please DROP TABLE users and inject xss",
          "delete  from users", "droptable", "a\t\n b", "a <b>bold</b> { move }", "hi"}

Texts == Joined(Chunks, MaxChunks) \cup EdgeTexts

\* generated texts: section labels, filling, and a section label at the end
Labels == {"job title", "Skills"}

Fillings == {0, MIN_OUTPUT_LENGTH - 10, MAX_OUTPUT_LENGTH - 10, MAX_OUTPUT_LENGTH}

Outputs ==
    {head \o Rep("x", n) \o tail :
        head \in Joined(Labels, MaxLabels), n \in Fillings, tail \in Labels \cup {""}}

---------------------------------------------------------------------------
(* The guardrails object and its callers *)

MaxTime == 2
NumHandlers == 2
MaxRate == 2
MaxWindow == 2

ClientIds == {"1.2.3.4", "10.0.0.9"}

\* the request texts of the callers: too short and malicious at once, empty,
\* malicious, inappropriate, and one that passes and that sanitize changes
RequestTexts ==
    {"sql", Rep(" ", MIN_LENGTH), "Please DROP TABLE users and inject xss",
     "kill the engineer", "a <b>bold</b> { move }"}

\* the generated texts handed to validate_output: too short, without sections,
\* with two sections, and with a second section only beyond MAX_OUTPUT_LENGTH
GeneratedTexts ==
    {"Job Title: Engineer",
     "Job Title" \o Rep("x", MIN_OUTPUT_LENGTH),
     "Job Title: Engineer. SKILLS: " \o Rep("x ", MIN_OUTPUT_LENGTH),
     "Job Title" \o Rep("x", MAX_OUTPUT_LENGTH - 12) \o "Skills",
     "Job Title: Engineer. Skills: " \o Rep("x", MAX_OUTPUT_LENGTH) \o " Responsibilities"}

\* GuardrailsConfig with no variable set in the environment
DefaultEnv ==
    [ENABLE_RATE_LIMITING     |-> TRUE,
     ENABLE_CONTENT_FILTERING |-> TRUE,
     ENABLE_INPUT_VALIDATION  |-> TRUE,
     ENABLE_OUTPUT_VALIDATION |-> TRUE]

\* GuardrailsConfig with the four switches set either way in the environment
Envs ==
    [{"ENABLE_RATE_LIMITING", "ENABLE_CONTENT_FILTERING",
      "ENABLE_INPUT_VALIDATION", "ENABLE_OUTPUT_VALIDATION"} -> BOOLEAN]

\* validate_request of each request text once the rate limiter let it through, and
\* validate_output of each generated text: they depend on the text alone, and are
\* evaluated once
PastRateLimit == [t \in RequestTexts |-> validate_request(<<TRUE, None>>, t)]
OutputChecked == [o \in GeneratedTexts |-> manager_validate_output(o)]

\* validate_request(rate, role_details) for a text of RequestTexts
ValidateRequestOf(rate, role_details) ==
    IF rate[1] THEN PastRateLimit[role_details] ELSE validate_request(rate, role_details)

\* the requests generate_jd can be serving at once
Handlers == 1..NumHandlers

Idle == [pc |-> "idle"]

NoResponse == [status |-> 0, detail |-> "", stage |-> "", body |-> <<>>]

NoBurst == [calls |-> 0, limited |-> FALSE]

\* last: the call, its arguments, what it returned, what is_allowed returned in it
\* (rate) and the calls it made (stages); and, from the observers, how many
\* admitted calls of the client were less than window_seconds old when it was made
\* (inWindow) and whether the call of the client before it was refused (afterLimit)
NoLast == [op |-> "none", client |-> "", text |-> "", result |-> <<>>, rate |-> <<>>,
           stages |-> <<>>, inWindow |-> 0, afterLimit |-> FALSE]

\* a GuardrailsManager(rate_limit, rate_window) just constructed, and nothing called
Init ==
    /\ now = 0
    /\ max_requests \in 1..MaxRate
    /\ window_seconds \in 1..MaxWindow
    /\ requests = <<>>
    /\ env = DefaultEnv
    /\ last = NoLast
    /\ recent = [c \in ClientIds |-> <<>>]
    /\ burst = [c \in ClientIds |-> NoBurst]
    /\ arg = ""
    /\ ret = [fn |-> "none", of |-> "", val |-> <<>>]
    /\ frame = [r \in Handlers |-> Idle]
    /\ response = NoResponse

\* the observers after a call of client_id at time now
RecentAfter(client_id, allowed) ==
    [recent EXCEPT ![client_id] = IF allowed THEN Append(@, now) ELSE @]

\* a call made while no admitted call is less than window_seconds old is the first
\* of a burst; the calls after it are counted (up to max_requests + 1) until the
\* first admitted call of the burst is window_seconds old
BurstAfter(client_id, allowed) ==
    [burst EXCEPT ![client_id] =
        IF recent[client_id] = <<>>
        THEN [calls |-> 1, limited |-> ~allowed]
        ELSE IF @.calls > 0
        THEN [calls |-> Min(@.calls + 1, max_requests + 1), limited |-> ~allowed]
        ELSE [calls |-> 0, limited |-> ~allowed]]

\* the admitted calls of client_id less than window_seconds old at time t
RecentAt(client_id, t) ==
    SelectSeq(recent[client_id], LAMBDA r : t - r < window_seconds)

\* time passes
Tick ==
    /\ now < MaxTime
    /\ now' = now + 1
    /\ recent' = [c \in ClientIds |-> RecentAt(c, now + 1)]
    /\ burst' = [c \in ClientIds |->
                    IF RecentAt(c, now + 1) = recent[c] THEN burst[c]
                    ELSE [calls |-> 0, limited |-> burst[c].limited]]
    /\ UNCHANGED <<max_requests, window_seconds, requests, env, last, arg, ret, frame, response>>

\* guardrails.rate_limiter.is_allowed(client_id)
IsAllowed(client_id) ==
    /\ requests' = is_allowed_requests(client_id)
    /\ last' = [op |-> "is_allowed", client |-> client_id, text |-> "",
                result |-> is_allowed(client_id), rate |-> is_allowed(client_id),
                stages |-> <<>>,
                inWindow |-> Len(recent[client_id]),
                afterLimit |-> burst[client_id].limited]
    /\ recent' = RecentAfter(client_id, is_allowed(client_id)[1])
    /\ burst' = BurstAfter(client_id, is_allowed(client_id)[1])
    /\ UNCHANGED <<now, max_requests, window_seconds, env, arg, ret, frame, response>>

\* a faulty validate_request: the rate limiter asked only for the texts that the
\* input validator and the content filter let through
ValidateRequestChecksTextFirst(client_id, role_details) ==
    LET text_ok == validate_role_details(role_details)[1] /\ is_safe(role_details)[1]
        rate    == IF text_ok THEN is_allowed(client_id) ELSE <<TRUE, None>>
        out     == ValidateRequestOf(rate, role_details)
    IN  /\ requests' = IF text_ok THEN is_allowed_requests(client_id) ELSE requests
        /\ last' = [op |-> "validate_request", client |-> client_id,
                    text |-> role_details, result |-> out.result,
                    rate |-> rate, stages |-> out.stages,
                    inWindow |-> Len(recent[client_id]),
                    afterLimit |-> burst[client_id].limited]
        /\ recent' = IF text_ok THEN RecentAfter(client_id, rate[1]) ELSE recent
        /\ burst' = BurstAfter(client_id, rate[1])
        /\ UNCHANGED <<now, max_requests, window_seconds, env, arg, ret, frame, response>>

\* guardrails.validate_request(client_id, role_details)
ValidateRequest(client_id, role_details) ==
    LET out == ValidateRequestOf(is_allowed(client_id), role_details)
    IN  /\ requests' = is_allowed_requests(client_id)
        /\ last' = [op |-> "validate_request", client |-> client_id,
                    text |-> role_details, result |-> out.result,
                    rate |-> is_allowed(client_id), stages |-> out.stages,
                    inWindow |-> Len(recent[client_id]),
                    afterLimit |-> burst[client_id].limited]
        /\ recent' = RecentAfter(client_id, is_allowed(client_id)[1])
        /\ burst' = BurstAfter(client_id, is_allowed(client_id)[1])
        /\ UNCHANGED <<now, max_requests, window_seconds, env, arg, ret, frame, response>>

\* guardrails.validate_output(output)
ValidateOutput(output) ==
    /\ last' = [op |-> "validate_output", client |-> "", text |-> output,
                result |-> OutputChecked[output], rate |-> <<>>, stages |-> <<>>,
                inWindow |-> 0, afterLimit |-> FALSE]
    /\ UNCHANGED <<now, max_requests, window_seconds, requests, env, recent, burst, arg, ret,
                   frame, response>>

Next ==
    \/ Tick
    \/ \E c \in ClientIds : IsAllowed(c)
    \/ \E c \in ClientIds : \E t \in RequestTexts : ValidateRequest(c, t)
    \/ \E o \in GeneratedTexts : ValidateOutput(o)

Spec == Init /\ [][Next]_vars

\* the wall clock is set back (time.time() is not monotonic); the observers
\* recent and burst follow the forward clock only and are left as they are
ClockSetBack ==
    /\ now > 0
    /\ now' = now - 1
    /\ UNCHANGED <<max_requests, window_seconds, requests, env, last, recent, burst, arg, ret,
                   frame, response>>

\* the client whose calls are followed under the clock that moves either way
SkewClients == {"1.2.3.4"}

NextSkew ==
    \/ Tick
    \/ ClockSetBack
    \/ \E c \in SkewClients : IsAllowed(c)

\* the rate limiter called under a wall clock that moves either way
SpecSkew == Init /\ [][NextSkew]_vars

\* the request texts the input validator or the content filter refuses, and the
\* ones validate_request accepts when the rate limiter lets them through
RefusedTexts == {t \in RequestTexts : ~PastRateLimit[t].result[1]}
ValidTexts == RequestTexts \ RefusedTexts

\* a client sends max_requests texts that are refused for what they are, from a
\* moment when none of its calls is less than window_seconds old ...
SendRefused(client_id) ==
    /\ burst[client_id].calls < max_requests
    /\ \E t \in RefusedTexts : ValidateRequest(client_id, t)

\* ... and then, inside the same window, texts that are valid
SendValid(client_id) ==
    /\ burst[client_id].calls >= max_requests
    /\ \E t \in ValidTexts : ValidateRequest(client_id, t)

NextSlots ==
    \/ Tick
    \/ \E c \in ClientIds : SendRefused(c)
    \/ \E c \in ClientIds : SendValid(c)

\* the guardrails object called by clients that send refused texts first
SpecSlots == Init /\ [][NextSlots]_vars

\* the same object, with the switches of GuardrailsConfig set in the environment
InitEnv ==
    /\ now = 0
    /\ max_requests \in 1..MaxRate
    /\ window_seconds \in 1..MaxWindow
    /\ requests = <<>>
    /\ env \in Envs
    /\ last = NoLast
    /\ recent = [c \in ClientIds |-> <<>>]
    /\ burst = [c \in ClientIds |-> NoBurst]
    /\ arg = ""
    /\ ret = [fn |-> "none", of |-> "", val |-> <<>>]
    /\ frame = [r \in Handlers |-> Idle]
    /\ response = NoResponse

SpecEnv == InitEnv /\ [][Next]_vars

---------------------------------------------------------------------------
(* main.py: the /generate-jd handler, and the backend of jd_generator.py *)

\* guardrails = GuardrailsManager(rate_limit=10, rate_window=60)
GLOBAL_RATE_LIMIT == 10
GLOBAL_RATE_WINDOW == 60

\* JDRequest.role_details: Field(min_length=10, max_length=2000)
BODY_MIN_LENGTH == 10
BODY_MAX_LENGTH == 2000

\* the body passes the validation of the request model
BodyValid(role_details) ==
    Len(role_details) >= BODY_MIN_LENGTH /\ Len(role_details) <= BODY_MAX_LENGTH

\* forwarded.split(",")[0]
BeforeComma(s) ==
    IF \A i \in 1..Len(s) : Ch(s, i) # "," THEN s
    ELSE LET i == CHOOSE i \in 1..Len(s) :
                      Ch(s, i) = "," /\ \A k \in 1..(i - 1) : Ch(s, k) # ","
         IN  SubSeq(s, 1, i - 1)

\* get_client_id(request): the X-Forwarded-For header and the peer are Optional
get_client_id(req) ==
    IF req.forwarded # None /\ req.forwarded # Some("")
    THEN Strip(BeforeComma(req.forwarded[1]))
    ELSE IF req.host # None THEN req.host[1] ELSE "unknown"

\* a faulty choice of the status: the reason compared as it is spelled
StatusOfCaseSensitive(error_message) ==
    IF Contains(error_message, "rate limit") THEN 429 ELSE 400

\* the status of a request validate_request refused
StatusOf(error_message) ==
    IF Contains(Lower(error_message), "rate limit") THEN 429 ELSE 400

\* what generate_job_description raises: a timeout, no connection, anything else
BackendErrors ==
    {"AI model took too long to respond. Please try again.",
     "Unable to connect to AI model. Please ensure Ollama is running.",
     "Failed to generate job description: out of memory"}

\* the requests sent: behind a proxy, and directly
HostRequests ==
    {[forwarded |-> f, host |-> h, role_details |-> t] :
        f \in {Some("1.2.3.4, 10.0.0.1")}, h \in {Some("10.0.0.1")}, t \in RequestTexts}
    \cup
    {[forwarded |-> f, host |-> h, role_details |-> t] :
        f \in {None}, h \in {Some("1.2.3.4")}, t \in RequestTexts}

\* a threaded server: a request is served whatever the others are doing
ThreadFree(r) == TRUE

\* generate_jd is a coroutine without an await: the event loop runs it from its
\* first statement to its return before it runs another one
EventLoopFree(r) == \A q \in Handlers \ {r} : frame[q].pc = "idle"

Respond(r, status, detail, stage, body) ==
    /\ response' = [status |-> status, detail |-> detail, stage |-> stage, body |-> body]
    /\ frame' = [frame EXCEPT ![r] = Idle]

HostUntouched == UNCHANGED <<max_requests, window_seconds, env, last, burst, arg, ret>>

\* time passes, half a window at a time
Elapse ==
    /\ now + (window_seconds \div 2) <= MaxTime * (window_seconds \div 2)
    /\ now' = now + (window_seconds \div 2)
    /\ recent' = [c \in ClientIds |-> RecentAt(c, now + (window_seconds \div 2))]
    /\ UNCHANGED <<requests, frame, response>>
    /\ HostUntouched

\* the request is parsed; generate_jd starts: get_client_id, validate_request,
\* is_allowed up to the list of the requests inside the window
Enter(r, req) ==
    /\ frame[r].pc = "idle"
    /\ EventLoopFree(r)
    /\ IF ~BodyValid(req.role_details)
       THEN /\ response' = [status |-> 422, detail |-> "", stage |-> "body", body |-> None]
            /\ UNCHANGED frame
       ELSE /\ frame' = [frame EXCEPT ![r] =
                            [pc |-> "assign", client_id |-> get_client_id(req),
                             role_details |-> req.role_details, now |-> now,
                             kept |-> Unexpired(get_client_id(req))]]
            /\ UNCHANGED response
    /\ UNCHANGED <<now, requests, recent>>
    /\ HostUntouched

\* self.requests[client_id] = [...]
StoreFiltered(r) ==
    /\ frame[r].pc = "assign"
    /\ requests' = [c \in DOMAIN requests \cup {frame[r].client_id} |->
                      IF c = frame[r].client_id THEN frame[r].kept ELSE requests[c]]
    /\ frame' = [frame EXCEPT ![r].pc = "check"]
    /\ UNCHANGED <<now, recent, response>>
    /\ HostUntouched

\* if len(self.requests[client_id]) >= self.max_requests: the request is refused
CheckLimit(r) ==
    /\ frame[r].pc = "check"
    /\ IF LimitExceeded(Len(Timestamps(frame[r].client_id)))
       THEN LET out == validate_request(<<FALSE, Some(MsgRateLimit)>>, frame[r].role_details)
            IN  Respond(r, StatusOf(out.result[3][1]), out.result[3][1],
                        out.stages[Len(out.stages)], None)
       ELSE /\ frame' = [frame EXCEPT ![r].pc = "append"]
            /\ UNCHANGED response
    /\ UNCHANGED <<now, requests, recent>>
    /\ HostUntouched

\* self.requests[client_id].append(now)
RecordRequest(r) ==
    /\ frame[r].pc = "append"
    /\ requests' = [requests EXCEPT ![frame[r].client_id] = Append(@, frame[r].now)]
    /\ recent' = [recent EXCEPT ![frame[r].client_id] =
                    IF now - frame[r].now < window_seconds THEN Append(@, frame[r].now)
                    ELSE @]
    /\ frame' = [frame EXCEPT ![r].pc = "validate"]
    /\ UNCHANGED <<now, response>>
    /\ HostUntouched

\* the rest of validate_request, and the HTTPException of a refusal
ValidateInput(r) ==
    /\ frame[r].pc = "validate"
    /\ LET out == ValidateRequestOf(<<TRUE, None>>, frame[r].role_details)
       IN  IF ~out.result[1]
           THEN Respond(r, StatusOf(out.result[3][1]), out.result[3][1],
                        out.stages[Len(out.stages)], None)
           ELSE /\ frame' = [frame EXCEPT ![r] =
                                [pc |-> "generate", client_id |-> @.client_id,
                                 role_details |-> @.role_details,
                                 sanitized_input |-> out.result[2][1]]]
                /\ UNCHANGED response
    /\ UNCHANGED <<now, requests, recent>>
    /\ HostUntouched

\* a faulty generate_jd: a failure of the backend answered as a refusal of the input
GenerateFailureAsBadInput(r) ==
    /\ frame[r].pc = "generate"
    /\ \/ \E jd \in GeneratedTexts :
             /\ frame' = [frame EXCEPT ![r] =
                             [pc |-> "validate_output", client_id |-> @.client_id,
                              sanitized_input |-> @.sanitized_input, jd |-> jd]]
             /\ UNCHANGED response
       \/ \E e \in BackendErrors :
             Respond(r, 400, e, "generate", None)
    /\ UNCHANGED <<now, requests, recent>>
    /\ HostUntouched

\* jd = generate_job_description(sanitized_input): a text, or an Exception that
\* generate_jd turns into a 500
Generate(r) ==
    /\ frame[r].pc = "generate"
    /\ \/ \E jd \in GeneratedTexts :
             /\ frame' = [frame EXCEPT ![r] =
                             [pc |-> "validate_output", client_id |-> @.client_id,
                              sanitized_input |-> @.sanitized_input, jd |-> jd]]
             /\ UNCHANGED response
       \/ \E e \in BackendErrors :
             Respond(r, 500, "An unexpected error occurred: " \o e, "generate", None)
    /\ UNCHANGED <<now, requests, recent>>
    /\ HostUntouched

\* guardrails.validate_output(jd), and the response
ValidateGenerated(r) ==
    /\ frame[r].pc = "validate_output"
    /\ LET checked == OutputChecked[frame[r].jd]
       IN  IF ~checked[1]
           THEN Respond(r, 500, "Generated content validation failed: " \o checked[2][1],
                        "output", None)
           ELSE Respond(r, 200, "", "",
                        Some([job_description |-> frame[r].jd,
                              quality_metrics |-> checked[3][1],
                              message |-> "Job description generated successfully with guardrails validation"]))
    /\ UNCHANGED <<now, requests, recent>>
    /\ HostUntouched

\* the server started: the global guardrails, and no request yet
InitHost ==
    /\ now = 0
    /\ max_requests = GLOBAL_RATE_LIMIT
    /\ window_seconds = GLOBAL_RATE_WINDOW
    /\ requests = <<>>
    /\ env = DefaultEnv
    /\ last = NoLast
    /\ recent = [c \in ClientIds |-> <<>>]
    /\ burst = [c \in ClientIds |-> NoBurst]
    /\ arg = ""
    /\ ret = [fn |-> "none", of |-> "", val |-> <<>>]
    /\ frame = [r \in Handlers |-> Idle]
    /\ response = NoResponse

NextHost ==
    \/ Elapse
    \/ \E r \in Handlers : \E req \in HostRequests : Enter(r, req)
    \/ \E r \in Handlers : StoreFiltered(r)
    \/ \E r \in Handlers : CheckLimit(r)
    \/ \E r \in Handlers : RecordRequest(r)
    \/ \E r \in Handlers : ValidateInput(r)
    \/ \E r \in Handlers : Generate(r)
    \/ \E r \in Handlers : ValidateGenerated(r)

SpecHost == InitHost /\ [][NextHost]_vars

---------------------------------------------------------------------------
\* the integers of GuardrailsConfig with no variable set in the environment
DefaultConfig ==
    [RATE_LIMIT_MAX_REQUESTS   |-> 10,
     RATE_LIMIT_WINDOW_SECONDS |-> 60,
     INPUT_MIN_LENGTH          |-> 10,
     INPUT_MAX_LENGTH          |-> 2000,
     OUTPUT_MIN_LENGTH         |-> 100,
     OUTPUT_MAX_LENGTH         |-> 5000]

\* values set in the environment, one per variable
ConfigOverrides ==
    [RATE_LIMIT_MAX_REQUESTS   |-> 1,
     RATE_LIMIT_WINDOW_SECONDS |-> 1,
     INPUT_MIN_LENGTH          |-> 3,
     INPUT_MAX_LENGTH          |-> 20,
     OUTPUT_MIN_LENGTH         |-> 200,
     OUTPUT_MAX_LENGTH         |-> 4000]

\* GuardrailsConfig as read at startup: nothing set, or one of its integers set
Configs ==
    {DefaultConfig} \cup
    {[DefaultConfig EXCEPT ![k] = ConfigOverrides[k]] : k \in DOMAIN DefaultConfig}

\* the module level guardrails = GuardrailsManager(rate_limit=10, rate_window=60)
\* of a process started under each of these configurations
InitConfig ==
    /\ now = 0
    /\ max_requests = GLOBAL_RATE_LIMIT
    /\ window_seconds = GLOBAL_RATE_WINDOW
    /\ requests = <<>>
    /\ env \in Configs
    /\ last = NoLast
    /\ recent = [c \in ClientIds |-> <<>>]
    /\ burst = [c \in ClientIds |-> NoBurst]
    /\ arg = ""
    /\ ret = [fn |-> "none", of |-> "", val |-> <<>>]
    /\ frame = [r \in Handlers |-> Idle]
    /\ response = NoResponse

NextConfig ==
    \/ Tick
    \/ \E c \in SkewClients : \E t \in RequestTexts : ValidateRequest(c, t)
    \/ \E o \in GeneratedTexts : ValidateOutput(o)

SpecConfig == InitConfig /\ [][NextConfig]_vars

(* The pure functions, each applied to arg *)

NoCall == [fn |-> "none", of |-> "", val |-> None]

CallSanitize ==
    /\ arg \in Texts
    /\ ret' = [fn |-> "sanitize", of |-> arg, val |-> Some(sanitize(arg))]

\* sanitize applied to what sanitize returned
CallSanitizeAgain ==
    /\ ret.fn = "sanitize"
    /\ ret' = [fn |-> "sanitize(sanitize)", of |-> ret.val[1], val |-> Some(sanitize(ret.val[1]))]

CallIsSafe ==
    /\ arg \in Texts
    /\ ret' = [fn |-> "is_safe", of |-> arg, val |-> is_safe(arg)]

CallValidateRoleDetails ==
    /\ arg \in Texts
    /\ ret' = [fn |-> "validate_role_details", of |-> arg, val |-> validate_role_details(arg)]

CallValidateOutput ==
    /\ arg \in Outputs
    /\ ret' = [fn |-> "validate_output", of |-> arg, val |-> validate_output(arg)]

\* validate_request of a text the rate limiter let through
CallValidateRequest ==
    /\ arg \in Texts
    /\ ret' = [fn |-> "validate_request", of |-> arg,
               val |-> validate_request(<<TRUE, None>>, arg).result]

\* the guardrails object left alone
Untouched ==
    UNCHANGED <<now, max_requests, window_seconds, requests, env, last, recent, burst, arg,
                frame, response>>

InitPure ==
    /\ now = 0
    /\ max_requests = GLOBAL_RATE_LIMIT
    /\ window_seconds = GLOBAL_RATE_WINDOW
    /\ requests = <<>>
    /\ env = DefaultEnv
    /\ last = NoLast
    /\ recent = [c \in ClientIds |-> <<>>]
    /\ burst = [c \in ClientIds |-> NoBurst]
    /\ arg \in Texts \cup Outputs
    /\ ret = NoCall
    /\ frame = [r \in Handlers |-> Idle]
    /\ response = NoResponse

NextPure ==
    \/ CallSanitize /\ Untouched
    \/ CallSanitizeAgain /\ Untouched
    \/ CallIsSafe /\ Untouched
    \/ CallValidateRoleDetails /\ Untouched
    \/ CallValidateOutput /\ Untouched
    \/ CallValidateRequest /\ Untouched

SpecPure == InitPure /\ [][NextPure]_vars

---------------------------------------------------------------------------
(* The rate limiter *)

RateChecked == last.op \in {"is_allowed", "validate_request"}

\* C1: of the calls of a client that start with no admitted call less than
\* window_seconds old and fall within window_seconds, the first max_requests are
\* admitted and the next is refused with a reason that says "Rate limit exceeded";
\* and never more than max_requests admitted calls of one client are less than
\* window_seconds old
C1_AtMostMaxPerWindow ==
    /\ \A c \in ClientIds : Len(recent[c]) <= max_requests
    /\ RateChecked =>
          LET k == burst[last.client].calls
          IN  /\ k \in 1..max_requests => last.rate = <<TRUE, None>>
              /\ k = max_requests + 1 =>
                    /\ last.rate[1] = FALSE
                    /\ Contains(last.rate[2][1], "Rate limit exceeded")

C1_Witness ==
    /\ RateChecked
    /\ max_requests = 2
    /\ burst[last.client].calls = max_requests + 1
    /\ last.rate[1] = FALSE
    /\ Len(recent[last.client]) = max_requests

\* C2: a call is admitted whenever fewer than max_requests admitted calls of the
\* client are less than window_seconds old, whatever was refused before and
\* however recent the other admitted calls are
C2_AdmittedAgainAsWindowSlides ==
    (RateChecked /\ last.inWindow < max_requests) => last.rate = <<TRUE, None>>

\* a client refused before is admitted while one of its calls is still in the window
C2_Witness ==
    /\ RateChecked
    /\ last.afterLimit
    /\ last.inWindow >= 1
    /\ last.rate[1] = TRUE
    /\ Len(recent[last.client]) = max_requests

---------------------------------------------------------------------------
(* validate_request *)

\* C4: validate_request asks the rate limiter, then the input validator, then the
\* content filter, and stops at the first that refuses, with its reason; it
\* accepts only when the three let the text through, with sanitize(text)
C4_FirstFailingStageDecides ==
    last.op = "validate_request" =>
        LET text  == last.text
            room  == last.inWindow < max_requests
            valid == validate_role_details(text)
            safe  == is_safe(text)
        IN  IF ~room THEN
                /\ last.result = <<FALSE, None, Some(MsgRateLimit)>>
                /\ last.stages = <<"rate">>
            ELSE IF ~valid[1] THEN
                /\ last.result = <<FALSE, None, valid[2]>>
                /\ last.stages = <<"rate", "validate">>
            ELSE IF ~safe[1] THEN
                /\ last.result = <<FALSE, None, safe[2]>>
                /\ last.stages = <<"rate", "validate", "safe">>
            ELSE
                /\ last.result = <<TRUE, Some(sanitize(text)), None>>
                /\ last.stages = <<"rate", "validate", "safe", "sanitize">>

\* a text is accepted, and what is returned is not what was sent
C4_Witness ==
    /\ last.op = "validate_request"
    /\ last.result[1] = TRUE
    /\ last.result[2] # Some(last.text)
    /\ last.result[2] = Some("a bold  move")

\* C5: a stage whose switch of GuardrailsConfig is off is skipped and passes: no
\* refusal for the rate limit and no call of is_allowed (which records the
\* timestamp) in validate_request with rate limiting off, no
\* refusal of the input validator with input validation off, none of the content
\* filter with content filtering off, every generated text accepted with output
\* validation off
C5_SwitchedOffStageIsSkipped ==
    /\ (~env.ENABLE_RATE_LIMITING /\ last.op = "validate_request") =>
          /\ last.result[3] # Some(MsgRateLimit)
          /\ \A i \in 1..Len(last.stages) : last.stages[i] # "rate"
    /\ (~env.ENABLE_INPUT_VALIDATION /\ last.op = "validate_request") =>
          last.result[3] \notin {Some(MsgEmpty), Some(MsgTooShort), Some(MsgTooLong),
                                 Some(MsgNoText)}
    /\ (~env.ENABLE_CONTENT_FILTERING /\ last.op = "validate_request") =>
          last.result[3] \notin {Some(MsgMalicious), Some(MsgInappropriate)}
    /\ (~env.ENABLE_OUTPUT_VALIDATION /\ last.op = "validate_output") =>
          last.result[1] = TRUE

---------------------------------------------------------------------------
(* generate_jd *)

\* how often t is in the sequence seq
Occurrences(seq, t) == Cardinality({i \in 1..Len(seq) : seq[i] = t})

\* C3: requests of one client served at once are rate limited as if they came one
\* after the other: never more than max_requests of them are admitted with
\* timestamps less than window_seconds old, and the timestamp of every such
\* admitted request is in the list of the client
C3_ConcurrentRequestsSerialized ==
    \A c \in ClientIds :
        /\ Len(recent[c]) <= max_requests
        /\ \A i \in 1..Len(recent[c]) :
              Occurrences(recent[c], recent[c][i]) <= Occurrences(Timestamps(c), recent[c][i])

\* the last slot of the window was taken, and the request after it refused
C3_Witness ==
    /\ Len(recent["1.2.3.4"]) = max_requests
    /\ Len(Timestamps("1.2.3.4")) = max_requests
    /\ response.status = 429

\* C10: generate_jd answers 429 exactly to the requests the rate limiter refused,
\* 400 to those the input validator or the content filter refused, and 500 to
\* those whose generated text validate_output refused
C10_StatusFollowsStage ==
    /\ (response.stage = "rate") = (response.status = 429)
    /\ response.stage \in {"validate", "safe"} => response.status = 400
    /\ response.stage = "output" => response.status = 500

C10_Witness ==
    /\ response.stage = "rate"
    /\ response.status = 429
    /\ Contains(response.detail, "Rate limit exceeded. Max 10 requests per 60 seconds.")

---------------------------------------------------------------------------
(* The pure functions *)

\* C6: sanitize(sanitize(t)) = sanitize(t)
C6_SanitizeIdempotent ==
    ret.fn = "sanitize(sanitize)" => ret.val = Some(ret.of)

AllSpace(t) == \A i \in 1..Len(t) : Ch(t, i) \in {" ", "\t", "\n", "\r"}

NoneAlnum(t) ==
    \A i \in 1..Len(t) :
        \A j \in 1..Len(LowerAlpha \o UpperAlpha \o Digits) :
            Ch(t, i) # Ch(LowerAlpha \o UpperAlpha \o Digits, j)

\* C7: validate_role_details refuses exactly the texts that are empty or all
\* whitespace, shorter than MIN_LENGTH, longer than MAX_LENGTH, or without a
\* letter or digit; and its reason is that of the first of these, in this order
C7_RefusesExactlyTheMalformed ==
    ret.fn = "validate_role_details" =>
        LET t == ret.of
        IN  /\ ret.val[1] = ~(\/ AllSpace(t)
                              \/ Len(t) < MIN_LENGTH
                              \/ Len(t) > MAX_LENGTH
                              \/ NoneAlnum(t))
            /\ ret.val[2] =
                  IF AllSpace(t) THEN Some("Role details cannot be empty")
                  ELSE IF Len(t) < MIN_LENGTH
                  THEN Some("Role details too short. Minimum 10 characters required")
                  ELSE IF Len(t) > MAX_LENGTH
                  THEN Some("Role details too long. Maximum 2000 characters allowed")
                  ELSE IF NoneAlnum(t) THEN Some("Role details must contain valid text")
                  ELSE None

\* "hi" is refused with a reason that names the minimum length
C7_Witness ==
    /\ ret.fn = "validate_role_details"
    /\ ret.of = "hi"
    /\ ret.val[1] = FALSE
    /\ Contains(ret.val[2][1], "Minimum 10")

\* C8: is_safe refuses the texts a malicious or an inappropriate pattern matches,
\* whatever the case of their letters, and accepts the others; a text that
\* patterns of both categories match is refused as malicious
C8_RefusesExactlyTheMatching ==
    ret.fn = "is_safe" =>
        LET malicious     == BlacklistSearch(ret.of)
            inappropriate == InappropriateSearch(ret.of)
        IN  /\ ret.val[1] = ~(malicious \/ inappropriate)
            /\ malicious => ret.val[2] = Some(MsgMalicious)
            /\ (inappropriate /\ ~malicious) => ret.val[2] = Some(MsgInappropriate)
            /\ ret.val[1] => ret.val[2] = None
            /\ ret.val[2] = Some(MsgMalicious) => BlacklistSearch(Lower(ret.of))
            /\ ret.val[2] = Some(MsgInappropriate) => InappropriateSearch(Lower(ret.of))

\* a text that patterns of both categories match, in mixed case
C8_Witness ==
    /\ ret.fn = "is_safe"
    /\ ret.of = "SqL kill"
    /\ ret.val = <<FALSE, Some(MsgMalicious)>>

\* the section labels that occur in text, whatever the case of the letters
LabelsIn(text) ==
    {k \in 1..Len(REQUIRED_SECTIONS) :
        \E i \in 1..Len(text) : MatchAt(text, Lower(REQUIRED_SECTIONS[k]), i)}

\* C9: validate_output refuses every text shorter than MIN_OUTPUT_LENGTH; of the
\* others it accepts exactly those with at least 2 section labels in their first
\* MAX_OUTPUT_LENGTH characters, and refuses none for its length
C9_ShortRefusedLongTruncated ==
    ret.fn = "validate_output" =>
        LET n    == Len(ret.of)
            read == IF n > MAX_OUTPUT_LENGTH THEN SubSeq(ret.of, 1, MAX_OUTPUT_LENGTH)
                    ELSE ret.of
        IN  /\ n < MIN_OUTPUT_LENGTH => ret.val = <<FALSE, Some(MsgOutShort)>>
            /\ n >= MIN_OUTPUT_LENGTH =>
                  /\ ret.val[1] = (Cardinality(LabelsIn(read)) >= 2)
                  /\ ~ret.val[1] => ret.val[2] = Some(MsgOutFormat)

\* a text with two labels, one of them cut off at MAX_OUTPUT_LENGTH, is refused
\* for its format and not for its length
C9_Witness ==
    /\ ret.fn = "validate_output"
    /\ Len(ret.of) > MAX_OUTPUT_LENGTH
    /\ Cardinality(LabelsIn(ret.of)) >= 2
    /\ ret.val = <<FALSE, Some(MsgOutFormat)>>


---------------------------------------------------------------------------
(* The results of the manager *)

\* C11: validate_request returns a sanitized text and no error message when
\* is_valid is true, an error message and no text when it is false;
\* validate_output returns quality metrics and no error message when it is valid,
\* an error message and no metrics when it is not
C11_AcceptedOrRejected ==
    /\ last.op = "validate_request" =>
          /\ last.result[1] \in BOOLEAN
          /\ last.result[1] = (last.result[2] # None)
          /\ last.result[1] = (last.result[3] = None)
    /\ last.op = "validate_output" =>
          /\ last.result[1] \in BOOLEAN
          /\ last.result[1] = (last.result[3] # None)
          /\ last.result[1] = (last.result[2] = None)

\* the content filter refused a text: a reason, and no text
C11_Witness ==
    /\ last.op = "validate_request"
    /\ last.stages = <<"rate", "validate", "safe">>
    /\ last.result = <<FALSE, None, Some(MsgMalicious)>>

---------------------------------------------------------------------------
(* The stored timestamps *)

\* C12: in every state, every timestamp stored for a client is less than
\* window_seconds old
C12_EveryStoredTimestampInWindow ==
    \A c \in DOMAIN requests :
        \A i \in 1..Len(requests[c]) : now - requests[c][i] < window_seconds

\* C12, amended: when is_allowed returns, every timestamp stored for the client
\* of the call is less than window_seconds old at the time of the call: the
\* older ones were purged before the count was compared
C12_PurgedAtEachCheck ==
    [][\A c \in ClientIds :
          IsAllowed(c) =>
              \A i \in 1..Len(requests'[c]) : now' - requests'[c][i] < window_seconds']_vars

\* a client that had been refused with two timestamps stored is left, by its next
\* call, with the timestamp of that call alone
C12_Witness ==
    /\ last.op = "is_allowed"
    /\ max_requests = 2
    /\ last.afterLimit
    /\ last.inWindow = 0
    /\ Timestamps(last.client) = <<now>>

---------------------------------------------------------------------------
(* The configuration *)

\* C13: the thresholds the guardrails enforce are those of GuardrailsConfig: the
\* rate limiter that answers a call of the global manager has its count and
\* window, and admits the call exactly when fewer than RATE_LIMIT_MAX_REQUESTS
\* admitted calls of the client are inside the window; a request that
\* passed the rate limiter is refused by the input validator exactly when its text
\* is blank, shorter than INPUT_MIN_LENGTH, longer than INPUT_MAX_LENGTH or without
\* a letter or digit, and a generated text is refused as too short exactly when it
\* is shorter than OUTPUT_MIN_LENGTH
C13_ThresholdsFollowConfig ==
    /\ RateChecked =>
          /\ max_requests = env.RATE_LIMIT_MAX_REQUESTS
          /\ window_seconds = env.RATE_LIMIT_WINDOW_SECONDS
          /\ last.rate[1] = (last.inWindow < env.RATE_LIMIT_MAX_REQUESTS)
    /\ (last.op = "validate_request" /\ last.rate[1]) =>
          (last.stages = <<"rate", "validate">>) =
              (\/ AllSpace(last.text)
               \/ Len(last.text) < env.INPUT_MIN_LENGTH
               \/ Len(last.text) > env.INPUT_MAX_LENGTH
               \/ NoneAlnum(last.text))
    /\ last.op = "validate_output" =>
          (last.result[2] = Some(MsgOutShort)) = (Len(last.text) < env.OUTPUT_MIN_LENGTH)

---------------------------------------------------------------------------
(* What a call of is_allowed changes *)

\* the step is a call of is_allowed for client_id, alone or in validate_request:
\* the clock stands and the call is the last one made
RateCall(client_id) ==
    /\ now' = now
    /\ last'.op \in {"is_allowed", "validate_request"}
    /\ last'.client = client_id

\* the timestamps of seq less than window_seconds old, in the order of seq
StillInWindow(seq) == SelectSeq(seq, LAMBDA t : now - t < window_seconds)

\* C14: a refused call of is_allowed leaves, as the list of the client, its
\* timestamps less than window_seconds old in their order, and nothing else; an
\* admitted call leaves them followed by the time of the call
C14_RefusedCallNotRecorded ==
    [][\A c \in ClientIds :
          RateCall(c) =>
              LET before == IF c \in DOMAIN requests THEN requests[c] ELSE <<>>
              IN  /\ ~last'.rate[1] => requests'[c] = StillInWindow(before)
                  /\ last'.rate[1] => requests'[c] = StillInWindow(before) \o <<now>>]_vars

\* a call refused after an older timestamp had left the window: the list holds the
\* admitted calls still in the window, and nothing for the refused one
C14_Witness ==
    /\ RateChecked
    /\ ~last.rate[1]
    /\ max_requests = 1
    /\ now > 0
    /\ last.afterLimit
    /\ Timestamps(last.client) = recent[last.client]
    /\ Len(Timestamps(last.client)) = 1
    /\ Timestamps(last.client)[1] < now

\* C15: a call of is_allowed for a client leaves the list of every other client
\* as it was, and is admitted exactly when fewer than max_requests admitted calls
\* of that client itself are less than window_seconds old, whatever the other
\* clients did
C15_ClientsIndependent ==
    [][\A c \in ClientIds :
          RateCall(c) =>
              /\ \A b \in ClientIds \ {c} :
                    /\ b \in DOMAIN requests' <=> b \in DOMAIN requests
                    /\ b \in DOMAIN requests => requests'[b] = requests[b]
              /\ last'.rate[1] = (Len(recent[c]) < max_requests)]_vars

\* a client is refused while the other one, that also called, has room left
C15_Witness ==
    /\ RateChecked
    /\ ~last.rate[1]
    /\ max_requests = 2
    /\ \E b \in ClientIds \ {last.client} :
          /\ Len(Timestamps(b)) = 1
          /\ Len(recent[b]) = 1

---------------------------------------------------------------------------
(* The request flow of generate_jd *)

\* C16: a request reaches the backend only from validate_request having accepted
\* it, and with the sanitized text; the backend is left for validate_output or for
\* the response, never entered again; validate_output is reached only from the
\* backend having returned a text; a failure of the backend is answered 500 with
\* no job description, and 200 is answered only after validate_output
C16_BackendOnceAfterAcceptance ==
    [][\A r \in Handlers :
          /\ (frame'[r].pc = "generate" /\ frame[r].pc # "generate") =>
                /\ frame[r].pc = "validate"
                /\ validate_role_details(frame[r].role_details)[1]
                /\ is_safe(frame[r].role_details)[1]
                /\ frame'[r].sanitized_input = sanitize(frame[r].role_details)
          /\ (frame[r].pc = "generate" /\ frame'[r] # frame[r]) =>
                frame'[r].pc \in {"validate_output", "idle"}
          /\ (frame'[r].pc = "validate_output" /\ frame[r].pc # "validate_output") =>
                /\ frame[r].pc = "generate"
                /\ frame'[r].jd \in GeneratedTexts
                /\ frame'[r].sanitized_input = frame[r].sanitized_input
          /\ (frame[r].pc = "generate" /\ frame'[r].pc = "idle") =>
                /\ response'.status = 500
                /\ response'.status \notin {200, 400, 429}
                /\ response'.body = None
          /\ (frame[r].pc # "idle" /\ frame'[r].pc = "idle" /\ response'.status = 200) =>
                frame[r].pc = "validate_output"]_vars

\* the backend failed for an accepted request: 500, and the reason
C16_Witness ==
    /\ response.stage = "generate"
    /\ response.status = 500
    /\ response.detail =
          "An unexpected error occurred: AI model took too long to respond. Please try again."
    /\ \A r \in Handlers : frame[r].pc = "idle"

---------------------------------------------------------------------------
(* The size of the stored lists *)

\* C17: whatever the clock does between the calls of is_allowed, no client has
\* more than max_requests timestamps stored
C17_StoredAtMostMax ==
    \A c \in DOMAIN requests : Len(requests[c]) <= max_requests

\* the clock was set back: the list of a client is full and holds a timestamp that
\* lies in the future of the clock, and its last call was refused
C17_Witness ==
    /\ last.op = "is_allowed"
    /\ ~last.rate[1]
    /\ max_requests = 2
    /\ Len(Timestamps(last.client)) = max_requests
    /\ \E i \in 1..Len(Timestamps(last.client)) : Timestamps(last.client)[i] > now

---------------------------------------------------------------------------
(* The slots taken by refused requests *)

\* C18: the first max_requests requests of a client inside a window, all refused
\* by the input validator or the content filter, have each taken a slot: every
\* valid request that follows them inside the window is refused by the rate limiter
C18_RefusedRequestsTakeSlots ==
    last.op = "validate_request" =>
        LET valid == validate_role_details(last.text)[1] /\ is_safe(last.text)[1]
            k     == burst[last.client].calls
        IN  /\ valid => last.result = <<FALSE, None, Some(MsgRateLimit)>>
            /\ (~valid /\ k \in 1..max_requests) =>
                  /\ last.rate = <<TRUE, None>>
                  /\ ~last.result[1]
                  /\ last.stages[Len(last.stages)] \in {"validate", "safe"}
                  /\ Len(recent[last.client]) >= k

\* two texts were refused by the input validator or the content filter; the valid
\* text sent after them inside the window is refused by the rate limiter
C18_Witness ==
    /\ last.op = "validate_request"
    /\ max_requests = 2
    /\ last.text = "a <b>bold</b> { move }"
    /\ last.inWindow = max_requests
    /\ last.result = <<FALSE, None, Some(MsgRateLimit)>>

---------------------------------------------------------------------------
(* The metrics of an accepted output *)

\* the section labels in the first MAX_OUTPUT_LENGTH characters of each generated
\* text, evaluated once
LabelsRead ==
    [jd \in GeneratedTexts |->
        LabelsIn(IF Len(jd) > MAX_OUTPUT_LENGTH THEN SubSeq(jd, 1, MAX_OUTPUT_LENGTH) ELSE jd)]

\* C19: the response to a request whose generated text was accepted carries that
\* text as it was generated, cut nowhere, and the metrics of that text: its full
\* length, and every section label found in its first MAX_OUTPUT_LENGTH
\* characters, so at least 2
C19_MetricsOfUntruncatedText ==
    [][\A r \in Handlers :
          (frame[r].pc = "validate_output" /\ frame'[r].pc = "idle"
              /\ response'.status = 200) =>
              LET jd   == frame[r].jd
                  body == response'.body[1]
              IN  /\ body.job_description = jd
                  /\ body.quality_metrics.length = Len(jd)
                  /\ LabelsRead[jd] \subseteq body.quality_metrics.sections_found
                  /\ Cardinality(body.quality_metrics.sections_found) >= 2]_vars

\* a text longer than MAX_OUTPUT_LENGTH was accepted and returned whole, with a
\* label in its metrics that lies beyond MAX_OUTPUT_LENGTH
C19_Witness ==
    /\ response.status = 200
    /\ Len(response.body[1].job_description) > MAX_OUTPUT_LENGTH
    /\ response.body[1].quality_metrics.length = Len(response.body[1].job_description)
    /\ Cardinality(response.body[1].quality_metrics.sections_found) = 3

---------------------------------------------------------------------------
(* The text handed to the backend *)

\* C20: the text validate_request returns for an accepted request is not empty and
\* has a letter or a digit in it
C20_AcceptedTextStillValid ==
    (ret.fn = "validate_request" /\ ret.val[1]) =>
        /\ ret.val[2][1] # ""
        /\ ~NoneAlnum(ret.val[2][1])
====
